---------------------------- MODULE Spec2Model ----------------------------
(***************************************************************************)
(* A model of SafeCfg (src/src/SafeCfg.ts): the constructor that resolves  *)
(* the instance options, and load, which runs the (stub) schema            *)
(* validation and the contextual production check against a caller's      *)
(* config object and settles a promise with a ValidationResult.            *)
(*                                                                         *)
(* JavaScript values are records [t, b, n, s, o]: t is the type tag and    *)
(* exactly one of b (boolean), n (number), s (string), o (own properties   *)
(* of an object) carries the value; the others hold a fixed filler, so     *)
(* that two equal JavaScript primitives are equal records.                 *)
(*                                                                         *)
(* load has no await in its body, so the engine runs one call's body       *)
(* without preemption.  The model lets the statements of different calls   *)
(* interleave freely, which includes every schedule the engine can         *)
(* produce.                                                                *)
(***************************************************************************)
EXTENDS Naturals, Sequences, FiniteSets, TLC

\* Number of load calls issued on the instance.
NumCalls == 2

\* The default of db.port in the documented schema.
DefaultPort == 5432

VARIABLES
    nodeEnv,    \* process.env.NODE_ENV
    optionsArg, \* the options argument the host passes to the constructor
    inst,       \* the SafeCfg instance: schema and options
    calls,      \* the load calls: position, config object, locals, promise
    console     \* the lines written by console.log

vars == <<nodeEnv, optionsArg, inst, calls, console>>

CallIds == 1..NumCalls

-----------------------------------------------------------------------------
(* JavaScript values *)

Undefined == [t |-> "undefined", b |-> FALSE, n |-> 0, s |-> "", o |-> {}]
Null == [t |-> "null", b |-> FALSE, n |-> 0, s |-> "", o |-> {}]
Bool(x) == [t |-> "boolean", b |-> x, n |-> 0, s |-> "", o |-> {}]
Num(x) == [t |-> "number", b |-> FALSE, n |-> x, s |-> "", o |-> {}]
Str(x) == [t |-> "string", b |-> FALSE, n |-> 0, s |-> x, o |-> {}]
Obj(props) == [t |-> "object", b |-> FALSE, n |-> 0, s |-> "", o |-> props]

\* An own data property, and an own accessor property whose getter throws.
Data(name, value) == [name |-> name, kind |-> "data", value |-> value]
Getter(name, thrown) == [name |-> name, kind |-> "throws", value |-> thrown]

\* new Error(message) and the engine's TypeError, as far as load reads them.
Error(message) == Obj({Data("message", Str(message))})

HasOwn(v, name) == v.t = "object" /\ \E p \in v.o : p.name = name
Own(v, name) == CHOOSE p \in v.o : p.name = name

\* A completion: a value, or a thrown value.
Normal(v) == [threw |-> FALSE, val |-> v]
Throw(v) == [threw |-> TRUE, val |-> v]

\* The property read v.name (v[name]).
Get(v, name) ==
    IF v.t \in {"undefined", "null"}
    THEN Throw(Error("Cannot read properties of " \o v.t
                     \o " (reading '" \o name \o "')"))
    ELSE IF HasOwn(v, name)
    THEN IF Own(v, name).kind = "data"
         THEN Normal(Own(v, name).value)
         ELSE Throw(Own(v, name).value)
    ELSE Normal(Undefined)

\* a === b, for the primitive literals the code compares against.
StrictEquals(a, b) == a.t = b.t /\ a.t # "object" /\ a = b

\* ToBoolean(v), the test of a || b.
Truthy(v) ==
    CASE v.t \in {"undefined", "null"} -> FALSE
      [] v.t = "boolean" -> v.b
      [] v.t = "number" -> v.n # 0
      [] v.t = "string" -> v.s # ""
      [] OTHER -> TRUE

\* a || b
Or(a, b) == IF Truthy(a) THEN a ELSE b

\* The string a template literal `${v}` yields.
TemplateString(v) ==
    CASE v.t = "undefined" -> "undefined"
      [] v.t = "null" -> "null"
      [] v.t = "boolean" -> (IF v.b THEN "true" ELSE "false")
      [] v.t = "number" -> ToString(v.n)
      [] v.t = "string" -> v.s
      [] OTHER -> "[object Object]"

\* { ...base, ...src }: the own properties of src override those of base;
\* spreading undefined or null adds nothing.
ObjectSpread(base, src) ==
    IF src.t # "object" THEN base
    ELSE Obj(src.o \cup {p \in base.o : ~HasOwn(src, p.name)})

-----------------------------------------------------------------------------
(* Inputs *)

True == Bool(TRUE)
False == Bool(FALSE)

\* The schema handed to the constructor:
\* {db: {host: {type:'string', required:true},
\*       port: {type:'number', default:5432}},
\*  debug: {type:'boolean'}}
Schema ==
    Obj({Data("db", Obj({
             Data("host", Obj({Data("type", Str("string")),
                               Data("required", True)})),
             Data("port", Obj({Data("type", Str("number")),
                               Data("default", Num(DefaultPort))}))})),
         Data("debug", Obj({Data("type", Str("boolean"))}))})

\* The values process.env.NODE_ENV takes: unset, empty, set.
NodeEnvValues == {Undefined, Str(""), Str("production")}

\* The second constructor argument: omitted, {environment: undefined} (the
\* documented call with NODE_ENV unset), and explicit environments.
OptionArgs ==
    {Undefined,
     Obj({Data("environment", Undefined)}),
     Obj({Data("environment", Str("production"))}),
     Obj({Data("environment", Str("staging")), Data("strict", True)})}

\* The config values handed to load.
Configs ==
    {Null,
     Undefined,
     Obj({Data("debug", True)}),
     Obj({Data("debug", False)}),
     Obj({Data("debug", Num(1))}),
     Obj({Data("debug", Str("true"))}),
     Obj({Getter("debug", Error("boom"))}),
     Obj({Getter("debug", Null)}),
     Obj({Data("db", Obj({}))}),
     Obj({Data("db", Obj({Data("host", Str("localhost"))}))})}

-----------------------------------------------------------------------------
(* SafeCfg *)

DebugWarning == "Debug mode is enabled in production environment"

\* new SafeCfg(schema, options) with process.env.NODE_ENV = env.
constructor(schema, options, env) ==
    LET opts == IF options = Undefined THEN Obj({}) ELSE options
        defaults == Obj({Data("environment", Or(env, Str("development"))),
                         Data("strict", False)})
    IN [constructed |-> TRUE,
        schema |-> schema,
        options |-> ObjectSpread(defaults, opts)]

NoInstance == [constructed |-> FALSE, schema |-> Undefined, options |-> Undefined]

\* The ValidationResult object literal.
ValidationResult(valid, errors, warnings) ==
    [valid |-> valid, errors |-> errors, warnings |-> warnings]

\* The promise an async function returns.
NoValue == ValidationResult(FALSE, <<>>, <<>>)
Pending == [state |-> "pending", value |-> NoValue, reason |-> Undefined]
Fulfilled(v) == [state |-> "fulfilled", value |-> v, reason |-> Undefined]
Rejected(r) == [state |-> "rejected", value |-> NoValue, reason |-> r]

\* validateSchema(config): a stub that logs one line; log is the console.
validateSchema(config, log) == Append(log, "Validating schema...")

\* validateForProduction with warnings.concat(...) in place of push: the
\* caller's array is left as it was.
validateForProductionConcat(config, warnings) ==
    LET d == Get(config, "debug")
    IN [threw |-> d.threw, val |-> IF d.threw THEN d.val ELSE Undefined,
        warnings |-> warnings]

\* validateForProduction with if (config.debug) in place of === true.
validateForProductionLoose(config, warnings) ==
    LET d == Get(config, "debug")
    IN IF d.threw
       THEN [threw |-> TRUE, val |-> d.val, warnings |-> warnings]
       ELSE [threw |-> FALSE, val |-> Undefined,
             warnings |-> IF Truthy(d.val)
                          THEN Append(warnings, DebugWarning)
                          ELSE warnings]

\* validateForProduction(config, warnings): reads config.debug, which may
\* throw, and pushes the warning when it is exactly true.
validateForProduction(config, warnings) ==
    LET d == Get(config, "debug")
    IN IF d.threw
       THEN [threw |-> TRUE, val |-> d.val, warnings |-> warnings]
       ELSE [threw |-> FALSE, val |-> Undefined,
             warnings |-> IF StrictEquals(d.val, True)
                          THEN Append(warnings, DebugWarning)
                          ELSE warnings]

\* The contextual check reading process.env.NODE_ENV when load runs, in
\* place of the environment the constructor resolved.
contextualNodeEnv(this, config, warnings) ==
    IF StrictEquals(Or(nodeEnv, Str("development")), Str("production"))
    THEN validateForProduction(config, warnings)
    ELSE [threw |-> FALSE, val |-> Undefined, warnings |-> warnings]

\* if (this.options.environment === 'production')
\*     this.validateForProduction(config, warnings)
contextual(this, config, warnings) ==
    IF StrictEquals(Get(this.options, "environment").val, Str("production"))
    THEN validateForProduction(config, warnings)
    ELSE [threw |-> FALSE, val |-> Undefined, warnings |-> warnings]

\* return {valid: errors.length === 0, errors, warnings}
returnClause(errors, warnings) ==
    Fulfilled(ValidationResult(Len(errors) = 0, errors, warnings))

\* The catch clause computing valid from the (empty) local errors list.
catchClauseValid(error) ==
    LET m == Get(error, "message")
    IN IF m.threw
       THEN Rejected(m.val)
       ELSE Fulfilled(ValidationResult(TRUE,
                <<"Validation failed: " \o TemplateString(m.val)>>, <<>>))

\* catch (error) { return {valid: false,
\*     errors: [`Validation failed: ${error.message}`], warnings: []} }
\* Reading error.message can itself throw, and then the promise rejects.
catchClause(error) ==
    LET m == Get(error, "message")
    IN IF m.threw
       THEN Rejected(m.val)
       ELSE Fulfilled(ValidationResult(FALSE,
                <<"Validation failed: " \o TemplateString(m.val)>>, <<>>))

\* load(config) run from start to end on its own: the promise it returns.
load(this, config) ==
    LET errors == <<>>
        warnings == <<>>
        r == contextual(this, config, warnings)
    IN IF r.threw THEN catchClause(r.val) ELSE returnClause(errors, r.warnings)

-----------------------------------------------------------------------------
(* The state machine *)

IdleCall ==
    [pc |-> "idle", config |-> Undefined, errors |-> <<>>, warnings |-> <<>>,
     threw |-> FALSE, thrown |-> Undefined, promise |-> Pending]

Init ==
    /\ nodeEnv \in NodeEnvValues
    /\ optionsArg \in OptionArgs
    /\ inst = NoInstance
    /\ calls = [c \in CallIds |-> IdleCall]
    /\ console = <<>>

\* The host process changes NODE_ENV.
SetNodeEnv(e) ==
    /\ e # nodeEnv
    /\ nodeEnv' = e
    /\ UNCHANGED <<optionsArg, inst, calls, console>>

\* new SafeCfg(Schema, optionsArg)
Construct ==
    /\ ~inst.constructed
    /\ inst' = constructor(Schema, optionsArg, nodeEnv)
    /\ UNCHANGED <<nodeEnv, optionsArg, calls, console>>

\* load(config) is called: its locals errors and warnings are allocated and
\* the try block starts with this.validateSchema(config).  Calls are
\* numbered in the order they are made.
loadEnter(c, config) ==
    /\ inst.constructed
    /\ calls[c].pc = "idle"
    /\ IF c = 1 THEN TRUE ELSE calls[c - 1].pc # "idle"
    /\ calls' = [calls EXCEPT ![c] =
                    [pc |-> "contextual", config |-> config,
                     errors |-> <<>>, warnings |-> <<>>, threw |-> FALSE,
                     thrown |-> Undefined, promise |-> Pending]]
    /\ console' = validateSchema(config, console)
    /\ UNCHANGED <<nodeEnv, optionsArg, inst>>

\* The contextual validation writing to one warnings array that all the
\* calls in flight share (an instance field in place of the local).
loadContextualShared(c) ==
    /\ calls[c].pc = "contextual"
    /\ LET r == contextual(inst, calls[c].config, calls[c].warnings)
       IN calls' = [d \in CallIds |->
                       IF d = c
                       THEN [calls[c] EXCEPT
                                !.warnings = r.warnings,
                                !.threw = r.threw,
                                !.thrown = r.val,
                                !.pc = IF r.threw THEN "catch" ELSE "return"]
                       ELSE IF calls[d].pc \in {"contextual", "return", "catch"}
                       THEN [calls[d] EXCEPT !.warnings = r.warnings]
                       ELSE calls[d]]
    /\ UNCHANGED <<nodeEnv, optionsArg, inst, console>>

\* The contextual validation; a throw transfers control to the catch clause.
loadContextual(c) ==
    /\ calls[c].pc = "contextual"
    /\ LET r == contextual(inst, calls[c].config, calls[c].warnings)
       IN calls' = [calls EXCEPT
                       ![c].warnings = r.warnings,
                       ![c].threw = r.threw,
                       ![c].thrown = r.val,
                       ![c].pc = IF r.threw THEN "catch" ELSE "return"]
    /\ UNCHANGED <<nodeEnv, optionsArg, inst, console>>

\* The return statement of the try block settles the promise.
loadReturn(c) ==
    /\ calls[c].pc = "return"
    /\ calls' = [calls EXCEPT
                    ![c].promise = returnClause(calls[c].errors, calls[c].warnings),
                    ![c].pc = "settled"]
    /\ UNCHANGED <<nodeEnv, optionsArg, inst, console>>

\* The catch clause settles the promise.
loadCatch(c) ==
    /\ calls[c].pc = "catch"
    /\ calls' = [calls EXCEPT
                    ![c].promise = catchClause(calls[c].thrown),
                    ![c].pc = "settled"]
    /\ UNCHANGED <<nodeEnv, optionsArg, inst, console>>

Next ==
    \/ \E e \in NodeEnvValues : SetNodeEnv(e)
    \/ Construct
    \/ \E c \in CallIds, config \in Configs : loadEnter(c, config)
    \/ \E c \in CallIds : loadContextual(c)
    \/ \E c \in CallIds : loadReturn(c)
    \/ \E c \in CallIds : loadCatch(c)

Spec == Init /\ [][Next]_vars

-----------------------------------------------------------------------------
(* What the properties below speak of *)

Settled(c) == calls[c].pc = "settled"
Returned(c) == calls[c].promise.state = "fulfilled"
Result(c) == calls[c].promise.value

\* The environment of the instance's options.
InstEnv == Get(inst.options, "environment").val
IsProduction == inst.constructed /\ InstEnv = Str("production")

\* config.debug can be read and is the boolean true.
DebugIsTrue(config) ==
    /\ config.t = "object"
    /\ \E p \in config.o : p.name = "debug" /\ p.kind = "data" /\ p.value = True

\* The value at a dotted path of a plain object, undefined where the path
\* leaves the object.
RECURSIVE PathGet(_, _)
PathGet(v, path) ==
    IF path = <<>> THEN v
    ELSE IF v.t = "object"
            /\ \E p \in v.o : p.name = Head(path) /\ p.kind = "data"
    THEN PathGet(Own(v, Head(path)).value, Tail(path))
    ELSE Undefined

\* The leaf fields the schema declares.
SchemaPaths == {<<"db", "host">>, <<"db", "port">>, <<"debug">>}

RequiredNoDefault(schema, path) ==
    /\ PathGet(schema, path \o <<"required">>) = True
    /\ ~HasOwn(PathGet(schema, path), "default")

HasDefault(schema, path) == HasOwn(PathGet(schema, path), "default")

\* The field is absent from a config object.
Absent(config, path) == config.t = "object" /\ PathGet(config, path) = Undefined

\* Every configuration a settled call can be said to expose: the caller's
\* object as load left it, and the config property of the result, if any.
ExposedConfigs(c) ==
    {calls[c].config}
        \cup (IF "config" \in DOMAIN Result(c) THEN {Result(c).config} ELSE {})

\* The environment the constructor is documented to resolve.
ExpectedEnvironment(options, env) ==
    IF options.t = "object" /\ PathGet(options, <<"environment">>) # Undefined
    THEN PathGet(options, <<"environment">>)
    ELSE IF env.t = "string" /\ env.s # "" THEN env
    ELSE Str("development")

-----------------------------------------------------------------------------
(* Properties *)

\* C1: every ValidationResult load returns, from the return statement or
\* from the catch clause, has valid = true exactly when its errors list is
\* empty.
C1_ValidIffNoErrors ==
    \A c \in CallIds :
        Returned(c) => (Result(c).valid <=> Len(Result(c).errors) = 0)

\* C1 witness: one call returned from the try block and another from the
\* catch clause.
C1_Witness ==
    \E c, d \in CallIds :
        /\ Returned(c) /\ ~calls[c].threw /\ Result(c).valid
        /\ Returned(d) /\ calls[d].threw /\ ~Result(d).valid

\* C2: on a production instance, load of a config whose debug is true
\* returns valid = true, no errors and exactly one warning, the debug-mode
\* text.
C2_ProductionDebugWarning ==
    \A c \in CallIds :
        (Settled(c) /\ IsProduction /\ DebugIsTrue(calls[c].config)) =>
            /\ Returned(c)
            /\ Result(c).valid
            /\ Result(c).errors = <<>>
            /\ Result(c).warnings = <<DebugWarning>>

\* C2 witness: such a load has settled.
C2_Witness ==
    \E c \in CallIds :
        Settled(c) /\ IsProduction /\ DebugIsTrue(calls[c].config)

\* C3: load never rejects: every settled call's promise is fulfilled, and a
\* failure thrown inside the try block yields valid = false with exactly
\* one error.
C3_NeverRejects ==
    \A c \in CallIds :
        Settled(c) =>
            /\ Returned(c)
            /\ calls[c].threw =>
                 (~Result(c).valid /\ Len(Result(c).errors) = 1)

\* C4: a field the schema declares required with no default, absent from
\* the config, makes load return valid = false with exactly one error (the
\* claim adds that the entry names REQUIRED_FIELD_MISSING and the path).
C4_RequiredFieldMissing ==
    \A c \in CallIds, path \in SchemaPaths :
        (Settled(c) /\ RequiredNoDefault(inst.schema, path)
                    /\ Absent(calls[c].config, path)) =>
            /\ Returned(c)
            /\ ~Result(c).valid
            /\ Len(Result(c).errors) = 1

\* C5: a field the schema gives a default, absent from the config, equals
\* the default in a configuration the result of load exposes.
C5_DefaultApplied ==
    \A c \in CallIds, path \in SchemaPaths :
        (Settled(c) /\ HasDefault(inst.schema, path)
                    /\ Absent(calls[c].config, path)) =>
            /\ Returned(c)
            /\ \E cfg \in ExposedConfigs(c) :
                   PathGet(cfg, path) = PathGet(inst.schema, path \o <<"default">>)

\* C6: whatever the other calls on the instance were doing meanwhile, a
\* settled call's promise is the one load yields for its config when run
\* alone from start to end.
C6_NoInterference ==
    \A c \in CallIds :
        Settled(c) => calls[c].promise = load(inst, calls[c].config)

\* C6 witness: on a production instance, call 1 holds its warning and has
\* not returned yet, while call 2, made after it, has already returned with
\* no warning.
C6_Witness ==
    /\ NumCalls >= 2
    /\ IsProduction
    /\ calls[1].pc = "return" /\ calls[1].warnings = <<DebugWarning>>
    /\ Settled(2) /\ Returned(2) /\ Result(2).warnings = <<>>

\* C7: unless the instance's environment is exactly 'production' and
\* config.debug is exactly the boolean true, the warnings list load returns
\* is empty.
C7_WarningGated ==
    \A c \in CallIds :
        (Returned(c) /\ ~(IsProduction /\ DebugIsTrue(calls[c].config))) =>
            Result(c).warnings = <<>>

\* C7 witness: a production instance returned no warning for debug: 1.
C7_Witness ==
    \E c \in CallIds :
        /\ IsProduction
        /\ calls[c].config = Obj({Data("debug", Num(1))})
        /\ Returned(c) /\ Result(c).warnings = <<>>

\* C8: no step changes the constructed instance or a config object handed
\* to load; the instance is one the constructor builds from its arguments;
\* and a returned warning goes with the instance's environment, whatever
\* NODE_ENV is when load runs.
C8_Frame ==
    /\ [][/\ inst.constructed => inst' = inst
          /\ \A c \in CallIds :
                calls[c].pc # "idle" => calls'[c].config = calls[c].config]_vars
    /\ [](inst.constructed =>
            inst \in {constructor(Schema, optionsArg, e) : e \in NodeEnvValues})
    /\ [](\A c \in CallIds :
            Returned(c) =>
                (Result(c).warnings # <<>>
                    <=> (IsProduction /\ DebugIsTrue(calls[c].config))))

\* C8 witness: the instance resolved 'production', NODE_ENV is now something
\* else, and a load has returned the production warning.
C8_Witness ==
    /\ IsProduction
    /\ nodeEnv # Str("production")
    /\ \E c \in CallIds : Returned(c) /\ Result(c).warnings = <<DebugWarning>>

\* C9: for every config, load settles with the same valid flag and errors
\* list on this instance as on an instance of any other environment.
C9_EnvironmentNonBlocking ==
    \A c \in CallIds :
        Settled(c) =>
            \A e \in {"development", "staging", "production"} :
                LET that == constructor(Schema,
                                Obj({Data("environment", Str(e))}), nodeEnv)
                    other == load(that, calls[c].config)
                IN /\ other.state = calls[c].promise.state
                   /\ other.value.valid = Result(c).valid
                   /\ other.value.errors = Result(c).errors

\* C10: the constructor leaves the instance with the environment the caller
\* gave when that is defined, else NODE_ENV when set and non-empty, else
\* 'development'.
C10_EnvironmentResolved ==
    [][(~inst.constructed /\ inst'.constructed) =>
          Get(inst'.options, "environment").val
              = ExpectedEnvironment(optionsArg, nodeEnv)]_vars

=============================================================================
